---- MODULE Spec2Model ----
(***************************************************************************)
(* Noise-map builders of noise-rs (src/utils/noise_map_builder): the       *)
(* Plane, Cylinder and Sphere projection builders, their setters and the   *)
(* cell-by-cell build loop, with the Plane builder's progress callback.    *)
(*                                                                         *)
(* f64 values are modelled as exact rationals [n, d] in lowest terms       *)
(* (d > 0), with the IEEE non-finite values as d = 0 (n = 1: +inf,         *)
(* n = -1: -inf, n = 0: NaN).  cos, sin and to_radians are uninterpreted:  *)
(* their results are terms [fn, arg], and arithmetic on a term builds a    *)
(* term.  Rounding of finite f64 arithmetic is not modelled.               *)
(***************************************************************************)
EXTENDS Integers, Sequences, FiniteSets, TLC

VARIABLES builder, run, requested

vars == <<builder, run, requested>>

----------------------------------------------------------------------------
(* Bounds of the model *)

\* set_size draws width from 0..MaxWidth and height from 0..MaxHeight
MaxWidth == 3
MaxHeight == 2

\* u8::MAX, the largest granularity set_progress_callback accepts
U8Max == 255

----------------------------------------------------------------------------
(* f64 *)

Abs(i) == IF i < 0 THEN -i ELSE i

RECURSIVE Gcd(_, _)
Gcd(a, b) == IF b = 0 THEN a ELSE Gcd(b, a % b)

Sign(i) == IF i > 0 THEN 1 ELSE IF i < 0 THEN -1 ELSE 0

\* the f64 n/d; d = 0 gives +inf, -inf or NaN by the sign of n
Q(n, d) ==
    IF d = 0 THEN [n |-> Sign(n), d |-> 0]
    ELSE LET g == Gcd(Abs(n), Abs(d))
             s == IF d < 0 THEN -1 ELSE 1
         IN  [n |-> s * (n \div g), d |-> s * (d \div g)]

F(i) == Q(i, 1)
NaN == [n |-> 0, d |-> 0]
Half == Q(1, 2)
Zero == F(0)
One == F(1)

IsNum(v) == DOMAIN v = {"n", "d"}
IsNaN(v) == IsNum(v) /\ v.d = 0 /\ v.n = 0

Term(f, l, r) == [fn |-> f, l |-> l, r |-> r]

FNeg(a) == IF IsNum(a) THEN [n |-> -a.n, d |-> a.d] ELSE Term("neg", a, a)

FAdd(a, b) ==
    IF IsNum(a) /\ IsNum(b)
    THEN IF a.d > 0 /\ b.d > 0 THEN Q(a.n * b.d + b.n * a.d, a.d * b.d)
         ELSE IF IsNaN(a) \/ IsNaN(b) THEN NaN
         ELSE IF a.d = 0 /\ b.d = 0 THEN (IF a.n = b.n THEN a ELSE NaN)
         ELSE IF a.d = 0 THEN a ELSE b
    ELSE Term("add", a, b)

FSub(a, b) == IF IsNum(a) /\ IsNum(b) THEN FAdd(a, FNeg(b)) ELSE Term("sub", a, b)

FMul(a, b) ==
    IF IsNum(a) /\ IsNum(b)
    THEN IF a.d > 0 /\ b.d > 0 THEN Q(a.n * b.n, a.d * b.d)
         ELSE IF IsNaN(a) \/ IsNaN(b) THEN NaN
         ELSE Q(Sign(a.n) * Sign(b.n), 0)
    ELSE Term("mul", a, b)

FDiv(a, b) ==
    IF IsNum(a) /\ IsNum(b)
    THEN IF a.d > 0 /\ b.d > 0 THEN Q(a.n * b.d, a.d * b.n)
         ELSE IF IsNaN(a) \/ IsNaN(b) THEN NaN
         ELSE IF a.d = 0 /\ b.d = 0 THEN NaN
         ELSE IF a.d = 0 THEN Q(a.n * (IF b.n < 0 THEN -1 ELSE 1), 0)
         ELSE Zero
    ELSE Term("div", a, b)

\* a >= b on f64: false when either side is NaN
FGe(a, b) ==
    /\ ~IsNaN(a)
    /\ ~IsNaN(b)
    /\ IF a.d > 0 /\ b.d > 0 THEN a.n * b.d >= b.n * a.d
       ELSE IF a.d = 0 /\ b.d = 0 THEN a.n >= b.n
       ELSE IF a.d = 0 THEN a.n > 0
       ELSE b.n < 0

FLe(a, b) == FGe(b, a)

to_radians(a) == Term("to_radians", a, a)
cos(a) == Term("cos", a, a)
sin(a) == Term("sin", a, a)

\* `n as f64` for a usize n
AsF64(n) == F(n)

----------------------------------------------------------------------------
(* Noise sources and the grid *)

\* the pure sources handed to the builders: "first" returns the first
\* coordinate of the point, "sum" the sum of all its coordinates
SourceModules == {"first", "sum"}

RECURSIVE SumCoords(_, _)
SumCoords(point, i) ==
    IF i > Len(point) THEN Zero
    ELSE IF i = Len(point) THEN point[i]
    ELSE FAdd(point[i], SumCoords(point, i + 1))

\* the period of the "sawtooth" source along each of its first two axes
SawPeriod == 2

\* v modulo SawPeriod, in [0, SawPeriod), for a finite v
Saw(v) == Q(v.n % (SawPeriod * v.d), v.d)

\* NoiseFn::get; "sawtooth" is periodic with period SawPeriod in each of the
\* first two coordinates: saw(x) + 3 * saw(y)
Get(source_module, point) ==
    IF source_module = "first" THEN point[1]
    ELSE IF source_module = "sawtooth"
    THEN FAdd(Saw(point[1]), FMul(F(3), Saw(point[2])))
    ELSE SumCoords(point, 1)

\* interpolate::linear(a, b, alpha)
linear(a, b, alpha) == FAdd(a, FMul(alpha, FSub(b, a)))

Cells(width, height) == (0 .. width - 1) \X (0 .. height - 1)

\* NoiseMap::new(width, height): every cell default-initialised to 0.0
NoiseMapNew(width, height) == [c \in Cells(width, height) |-> Zero]

----------------------------------------------------------------------------
(* Builders *)

None == <<>>
Some(v) == <<v>>

DefaultSize == <<100, 100>>

PlaneNew(source_module, dim) ==
    [kind |-> "Plane", DIM |-> dim, is_seamless |-> FALSE,
     x_bounds |-> <<F(-1), F(1)>>, y_bounds |-> <<F(-1), F(1)>>,
     size |-> DefaultSize, source_module |-> source_module,
     callback_config |-> None]

CylinderNew(source_module) ==
    [kind |-> "Cylinder", angle_bounds |-> <<F(-90), F(90)>>,
     height_bounds |-> <<F(-1), F(1)>>,
     size |-> DefaultSize, source_module |-> source_module]

SphereNew(source_module) ==
    [kind |-> "Sphere", latitude_bounds |-> <<F(-1), F(1)>>,
     longitude_bounds |-> <<F(-1), F(1)>>,
     size |-> DefaultSize, source_module |-> source_module]

\* u8::checked_ilog10: None for 0, else the floor of the base-10 logarithm,
\* found by counting the divisions by 10
RECURSIVE ilog10(_)
ilog10(g) == IF g < 10 THEN 0 ELSE 1 + ilog10(g \div 10)

checked_ilog10(g) == IF g = 0 THEN None ELSE Some(ilog10(g))

unwrap_or(opt, dflt) == IF opt = None THEN dflt ELSE opt[1]

\* final_granularity without the `+ 1`
final_granularity_NoPlusOne(granularity) ==
    IF granularity > 10
    THEN unwrap_or(checked_ilog10(granularity), 0)
    ELSE granularity

final_granularity(granularity) ==
    IF granularity > 10
    THEN unwrap_or(checked_ilog10(granularity), 0) + 1
    ELSE granularity

\* `final_granularity as u8`
AsU8(n) == n % (U8Max + 1)

\* the pair stored as passed, never swapped
NormalizeBounds_Verbatim(lower_bound, upper_bound) == <<lower_bound, upper_bound>>

\* the (lower, upper) pair the Cylinder setters store
NormalizeBounds(lower_bound, upper_bound) ==
    IF FGe(lower_bound, upper_bound)
    THEN <<upper_bound, lower_bound>>
    ELSE <<lower_bound, upper_bound>>

----------------------------------------------------------------------------
(* State *)

IdleRun == [pc |-> "idle", x |-> 0, y |-> 0, result_map |-> <<>>, events |-> <<>>]

NoRequest ==
    [granularity |-> -1, angle_bounds |-> <<>>, height_bounds |-> <<>>]

Dims == {2, 3, 4}

Init ==
    /\ builder \in {PlaneNew(src, dim) : src \in SourceModules, dim \in Dims}
                   \cup {CylinderNew(src) : src \in SourceModules}
                   \cup {SphereNew(src) : src \in SourceModules}
    /\ run = IdleRun
    /\ requested = NoRequest

Configuring == run.pc = "idle"

----------------------------------------------------------------------------
(* Setters *)

set_is_seamless(is_seamless) ==
    /\ Configuring
    /\ builder.kind = "Plane"
    /\ builder' = [builder EXCEPT !.is_seamless = is_seamless]
    /\ UNCHANGED <<run, requested>>

set_x_bounds(lower_x_bound, upper_x_bound) ==
    /\ Configuring
    /\ builder.kind = "Plane"
    /\ builder' = [builder EXCEPT !.x_bounds = <<lower_x_bound, upper_x_bound>>]
    /\ UNCHANGED <<run, requested>>

set_y_bounds(lower_y_bound, upper_y_bound) ==
    /\ Configuring
    /\ builder.kind = "Plane"
    /\ builder' = [builder EXCEPT !.y_bounds = <<lower_y_bound, upper_y_bound>>]
    /\ UNCHANGED <<run, requested>>

set_progress_callback(granularity) ==
    /\ Configuring
    /\ builder.kind = "Plane"
    /\ builder' = [builder EXCEPT !.callback_config =
                      Some([granularity |-> AsU8(final_granularity(granularity))])]
    /\ requested' = [requested EXCEPT !.granularity = granularity]
    /\ UNCHANGED run

set_angle_bounds(lower_bound, upper_bound) ==
    /\ Configuring
    /\ builder.kind = "Cylinder"
    /\ builder' = [builder EXCEPT !.angle_bounds =
                      NormalizeBounds(lower_bound, upper_bound)]
    /\ requested' = [requested EXCEPT !.angle_bounds = <<lower_bound, upper_bound>>]
    /\ UNCHANGED run

set_height_bounds(lower_bound, upper_bound) ==
    /\ Configuring
    /\ builder.kind = "Cylinder"
    /\ builder' = [builder EXCEPT !.height_bounds =
                      NormalizeBounds(lower_bound, upper_bound)]
    /\ requested' = [requested EXCEPT !.height_bounds = <<lower_bound, upper_bound>>]
    /\ UNCHANGED run

set_latitude_bounds(min_lat_bound, max_lat_bound) ==
    /\ Configuring
    /\ builder.kind = "Sphere"
    /\ builder' = [builder EXCEPT !.latitude_bounds = <<min_lat_bound, max_lat_bound>>]
    /\ UNCHANGED <<run, requested>>

set_longitude_bounds(min_lon_bound, max_lon_bound) ==
    /\ Configuring
    /\ builder.kind = "Sphere"
    /\ builder' = [builder EXCEPT !.longitude_bounds = <<min_lon_bound, max_lon_bound>>]
    /\ UNCHANGED <<run, requested>>

set_bounds(min_lat_bound, max_lat_bound, min_lon_bound, max_lon_bound) ==
    /\ Configuring
    /\ builder.kind = "Sphere"
    /\ builder' = [builder EXCEPT
                      !.latitude_bounds = <<min_lat_bound, max_lat_bound>>,
                      !.longitude_bounds = <<min_lon_bound, max_lon_bound>>]
    /\ UNCHANGED <<run, requested>>

set_size(width, height) ==
    /\ Configuring
    /\ builder' = [builder EXCEPT !.size = <<width, height>>]
    /\ UNCHANGED <<run, requested>>

\* Plane offers set_source_module through the NoiseMapBuilder trait, which
\* it implements for DIM = 3 only
set_source_module(source_module) ==
    /\ Configuring
    /\ builder.kind = "Plane" => builder.DIM = 3
    /\ builder' = [builder EXCEPT !.source_module = source_module]
    /\ UNCHANGED <<run, requested>>

----------------------------------------------------------------------------
(* build: the values of a cell *)

x_extent(b) == FSub(b.x_bounds[2], b.x_bounds[1])
y_extent(b) == FSub(b.y_bounds[2], b.y_bounds[1])

\* the step that puts the last column on the upper bound
x_step_Inclusive(b) == FDiv(x_extent(b), AsF64(b.size[1] - 1))

x_step(b) == FDiv(x_extent(b), AsF64(b.size[1]))
y_step(b) == FDiv(y_extent(b), AsF64(b.size[2]))

current_y(b, y) == FAdd(b.y_bounds[1], FMul(y_step(b), AsF64(y)))
current_x(b, x) == FAdd(b.x_bounds[1], FMul(x_step(b), AsF64(x)))

\* the point handed to the source: [f64; DIM], the coordinates after the
\* first two being 0.0 and, for the fourth, 0.5
PlanePoint(dim, px, py) ==
    IF dim = 2 THEN <<px, py>>
    ELSE IF dim = 3 THEN <<px, py, Zero>>
    ELSE <<px, py, Zero, Half>>

\* the points a Plane cell samples, in the order of the calls to get
PlaneSamples(b, x, y) ==
    LET cx == current_x(b, x)
        cy == current_y(b, y)
    IN  IF b.is_seamless
        THEN << PlanePoint(b.DIM, cx, cy),
                PlanePoint(b.DIM, FAdd(cx, x_extent(b)), cy),
                PlanePoint(b.DIM, cx, FAdd(cy, y_extent(b))),
                PlanePoint(b.DIM, FAdd(cx, x_extent(b)), FAdd(cy, y_extent(b))) >>
        ELSE << PlanePoint(b.DIM, cx, cy) >>

\* the blend factor without its complement to 1
x_blend_NoComplement(b, x) ==
    FDiv(FSub(current_x(b, x), b.x_bounds[1]), x_extent(b))

x_blend(b, x) ==
    FSub(One, FDiv(FSub(current_x(b, x), b.x_bounds[1]), x_extent(b)))

y_blend(b, y) ==
    FSub(One, FDiv(FSub(current_y(b, y), b.y_bounds[1]), y_extent(b)))

final_value(b, x, y) ==
    LET pts == PlaneSamples(b, x, y)
    IN  IF b.is_seamless
        THEN LET sw_value == Get(b.source_module, pts[1])
                 se_value == Get(b.source_module, pts[2])
                 nw_value == Get(b.source_module, pts[3])
                 ne_value == Get(b.source_module, pts[4])
                 y0 == linear(sw_value, se_value, x_blend(b, x))
                 y1 == linear(nw_value, ne_value, x_blend(b, x))
             IN  linear(y0, y1, y_blend(b, y))
        ELSE Get(b.source_module, pts[1])

angle_extent(b) == FSub(b.angle_bounds[2], b.angle_bounds[1])
height_extent(b) == FSub(b.height_bounds[2], b.height_bounds[1])

current_height(b, y) ==
    FAdd(b.height_bounds[1],
         FMul(FDiv(height_extent(b), AsF64(b.size[2])), AsF64(y)))

current_angle(b, x) ==
    FAdd(b.angle_bounds[1],
         FMul(FDiv(angle_extent(b), AsF64(b.size[1])), AsF64(x)))

CylinderValue(b, x, y) ==
    LET point_x == cos(to_radians(current_angle(b, x)))
        point_z == sin(to_radians(current_angle(b, x)))
    IN  Get(b.source_module, <<point_x, current_height(b, y), point_z>>)

lon_extent(b) == FSub(b.longitude_bounds[2], b.longitude_bounds[1])
lat_extent(b) == FSub(b.latitude_bounds[2], b.latitude_bounds[1])

current_lat(b, y) ==
    FAdd(b.latitude_bounds[1],
         FMul(FDiv(lat_extent(b), AsF64(b.size[2])), AsF64(y)))

current_lon(b, x) ==
    FAdd(b.longitude_bounds[1],
         FMul(FDiv(lon_extent(b), AsF64(b.size[1])), AsF64(x)))

lat_lon_to_xyz(lat, lon) ==
    LET r == cos(to_radians(lat))
    IN  << FMul(r, cos(to_radians(lon))),
           sin(to_radians(lat)),
           FMul(r, sin(to_radians(lon))) >>

SphereValue(b, x, y) ==
    Get(b.source_module, lat_lon_to_xyz(current_lat(b, y), current_lon(b, x)))

\* how many times the source is sampled for one cell
SampleCount(b) == IF b.kind = "Plane" /\ b.is_seamless THEN 4 ELSE 1

CellValue(b, x, y) ==
    IF b.kind = "Plane" THEN final_value(b, x, y)
    ELSE IF b.kind = "Cylinder" THEN CylinderValue(b, x, y)
    ELSE SphereValue(b, x, y)

----------------------------------------------------------------------------
(* build: the loop *)

\* one entry of the history of a build: a sample of the source ("get"), a
\* write to the grid ("write"), the entry into the progress callback
\* ("call", with its two arguments) and the return from it ("ret"), each
\* with the cell being processed, and the return of build ("return")
Ev(ev, x, y, total, progress_pt) ==
    [ev |-> ev, x |-> x, y |-> y, total |-> total, progress_pt |-> progress_pt]

\* `let mut result_map = NoiseMap::new(width, height)`
BuildStart(b) ==
    [pc |-> "outer", x |-> 0, y |-> 0,
     result_map |-> NoiseMapNew(b.size[1], b.size[2]), events |-> <<>>]

\* a range that stops one short
InRange_StopsEarly(i, n) == i + 1 < n

\* a range that includes its end
InRange_Inclusive(i, n) == i <= n

\* the test of `for i in 0..n`
InRange(i, n) == i < n

\* `for y in 0..height`
StepOuter(b, s) ==
    IF InRange(s.y, b.size[2])
    THEN [s EXCEPT !.x = 0, !.pc = "inner"]
    ELSE [s EXCEPT !.pc = "done",
                   !.events = Append(@, Ev("return", 0, 0, 0, 0))]

\* the cell is sampled but the progress check runs before the write
ProcessCell_WriteDeferred(b, s) ==
    LET gets == [i \in 1 .. SampleCount(b) |-> Ev("get", s.x, s.y, 0, 0)]
    IN  IF b.kind = "Plane"
        THEN [s EXCEPT !.events = @ \o gets, !.pc = "progress"]
        ELSE [s EXCEPT !.result_map[<<s.x, s.y>>] = CellValue(b, s.x, s.y),
                       !.events = @ \o gets \o <<Ev("write", s.x, s.y, 0, 0)>>,
                       !.x = @ + 1]

\* the body of the inner loop up to `result_map[(x, y)] = value`; indexing
\* the grid outside its size panics
ProcessCell(b, s) ==
    LET gets == [i \in 1 .. SampleCount(b) |-> Ev("get", s.x, s.y, 0, 0)]
    IN  IF <<s.x, s.y>> \in DOMAIN s.result_map
        THEN [s EXCEPT !.result_map[<<s.x, s.y>>] = CellValue(b, s.x, s.y),
                       !.events = @ \o gets \o <<Ev("write", s.x, s.y, 0, 0)>>,
                       !.pc = IF b.kind = "Plane" THEN "progress" ELSE "inner",
                       !.x = IF b.kind = "Plane" THEN @ ELSE @ + 1]
        ELSE [s EXCEPT !.events = @ \o gets, !.pc = "panicked"]

\* `for x in 0..width`
StepInner(b, s) ==
    IF InRange(s.x, b.size[1])
    THEN ProcessCell(b, s)
    ELSE [s EXCEPT !.y = @ + 1, !.pc = "outer"]

\* a progress point that is not the product
progress_pt_Sum(x, y) == y + x

progress_pt(x, y) == y * x

\* `progress_pt % granularity == 0`, for granularity > 0
Notify(pt, granularity) == pt % granularity = 0

\* `if let Some(callback_config) = &self.callback_config { ... }`; the
\* remainder of a division by zero panics
StepProgress(b, s) ==
    IF b.callback_config = None
    THEN [s EXCEPT !.x = @ + 1, !.pc = "inner"]
    ELSE LET granularity == b.callback_config[1].granularity
         IN  IF granularity = 0
             THEN [s EXCEPT !.pc = "panicked"]
             ELSE IF Notify(progress_pt(s.x, s.y), granularity)
             THEN [s EXCEPT !.pc = "callback",
                            !.events = Append(@, Ev("call", s.x, s.y,
                                                    b.size[1] * b.size[2],
                                                    progress_pt(s.x, s.y)))]
             ELSE [s EXCEPT !.x = @ + 1, !.pc = "inner"]

\* the return from the callback skips the next cell
StepCallbackReturn_SkipsCell(b, s) ==
    [s EXCEPT !.events = Append(@, Ev("ret", s.x, s.y, 0, 0)),
              !.x = @ + 2, !.pc = "inner"]

\* the callback returns to build, which goes on with the next x
StepCallbackReturn(b, s) ==
    [s EXCEPT !.events = Append(@, Ev("ret", s.x, s.y, 0, 0)),
              !.x = @ + 1, !.pc = "inner"]

BuildStep(b, s) ==
    CASE s.pc = "outer" -> StepOuter(b, s)
      [] s.pc = "inner" -> StepInner(b, s)
      [] s.pc = "progress" -> StepProgress(b, s)
      [] s.pc = "callback" -> StepCallbackReturn(b, s)
      [] OTHER -> s

RECURSIVE RunBuild(_, _)
RunBuild(b, s) ==
    IF s.pc \in {"done", "panicked"} THEN s ELSE RunBuild(b, BuildStep(b, s))

\* build(&self) run to its end
build(b) == RunBuild(b, BuildStart(b))

\* the largest grid a build is followed through
MaxCells == 100

Build ==
    /\ Configuring
    /\ builder.size[1] * builder.size[2] <= MaxCells
    /\ run' = BuildStart(builder)
    /\ UNCHANGED <<builder, requested>>

OuterLoop ==
    /\ run.pc = "outer"
    /\ run' = StepOuter(builder, run)
    /\ UNCHANGED <<builder, requested>>

InnerLoop ==
    /\ run.pc = "inner"
    /\ run' = StepInner(builder, run)
    /\ UNCHANGED <<builder, requested>>

Progress ==
    /\ run.pc = "progress"
    /\ run' = StepProgress(builder, run)
    /\ UNCHANGED <<builder, requested>>

CallbackReturn ==
    /\ run.pc = "callback"
    /\ run' = StepCallbackReturn(builder, run)
    /\ UNCHANGED <<builder, requested>>

BuildSteps == Build \/ OuterLoop \/ InnerLoop \/ Progress \/ CallbackReturn

----------------------------------------------------------------------------
(* Inputs and specifications *)

SizeArgs == ((0 .. MaxWidth) \X (0 .. MaxHeight)) \cup {<<4, 4>>}

XBoundArgs == {<<F(0), F(2)>>, <<F(1), F(1)>>}
YBoundArgs == {<<F(0), F(2)>>}

GranularityArgs == {0, 1, 37}

AngleVals == {F(-10), F(10), NaN}
HeightArgs == {<<F(1), F(-1)>>, <<F(0), F(0)>>, <<F(0), F(2)>>}

LatLonArgs == {<<F(10), F(-10)>>, <<F(0), F(90)>>}

SetIsSeamless == \E v \in BOOLEAN : set_is_seamless(v)
SetXBounds == \E p \in XBoundArgs : set_x_bounds(p[1], p[2])
SetYBounds == \E p \in YBoundArgs : set_y_bounds(p[1], p[2])
SetProgressCallback == \E g \in GranularityArgs : set_progress_callback(g)
SetAngleBounds == \E lo \in AngleVals, up \in AngleVals : set_angle_bounds(lo, up)
SetHeightBounds == \E p \in HeightArgs : set_height_bounds(p[1], p[2])
SetLatitudeBounds == \E p \in LatLonArgs : set_latitude_bounds(p[1], p[2])
SetLongitudeBounds == \E p \in LatLonArgs : set_longitude_bounds(p[1], p[2])
SetBounds == \E p \in LatLonArgs, q \in LatLonArgs : set_bounds(p[1], p[2], q[1], q[2])
SetSize == \E sz \in SizeArgs : set_size(sz[1], sz[2])
SetSourceModule == \E src \in SourceModules : set_source_module(src)

Next ==
    \/ SetIsSeamless
    \/ SetXBounds
    \/ SetYBounds
    \/ SetProgressCallback
    \/ SetAngleBounds
    \/ SetHeightBounds
    \/ SetLatitudeBounds
    \/ SetLongitudeBounds
    \/ SetBounds
    \/ SetSize
    \/ SetSourceModule
    \/ Build
    \/ OuterLoop
    \/ InnerLoop
    \/ Progress
    \/ CallbackReturn

Spec == Init /\ [][Next]_vars

\* Plane builders configured with any u8 granularity; no build
SetAnyProgressCallback == \E g \in 0 .. U8Max : set_progress_callback(g)

InitPlane ==
    /\ builder \in {PlaneNew(src, dim) : src \in SourceModules, dim \in Dims}
    /\ run = IdleRun
    /\ requested = NoRequest

NextGranularity == SetAnyProgressCallback \/ SetIsSeamless

SpecGranularity == InitPlane /\ [][NextGranularity]_vars

\* Plane builds with a progress callback, the 10x10 grid among the sizes
ProgressGranularityArgs == {0, 1, 3, 10, 37}
ProgressSizeArgs == SizeArgs \cup {<<10, 10>>}

SetProgressSize == \E sz \in ProgressSizeArgs : set_size(sz[1], sz[2])
SetProgressGranularity == \E g \in ProgressGranularityArgs : set_progress_callback(g)

NextProgress ==
    \/ SetProgressSize
    \/ SetProgressGranularity
    \/ Build
    \/ OuterLoop
    \/ InnerLoop
    \/ Progress
    \/ CallbackReturn

SpecProgress == InitPlane /\ [][NextProgress]_vars

\* Plane builds, seamless or not, over bounds of extent 2, 1, 0 and -2 and
\* over the periodic source as well; no progress callback
SeamlessSources == SourceModules \cup {"sawtooth"}
SeamlessXBoundArgs ==
    {<<F(0), F(2)>>, <<F(1), F(1)>>, <<F(1), F(-1)>>, <<F(0), F(1)>>}
SeamlessYBoundArgs == {<<F(0), F(2)>>, <<F(1), F(1)>>}

InitSeamless ==
    /\ builder \in {PlaneNew(src, dim) : src \in SeamlessSources, dim \in Dims}
    /\ run = IdleRun
    /\ requested = NoRequest

SetSeamlessXBounds == \E p \in SeamlessXBoundArgs : set_x_bounds(p[1], p[2])
SetSeamlessYBounds == \E p \in SeamlessYBoundArgs : set_y_bounds(p[1], p[2])

NextSeamless ==
    \/ SetIsSeamless
    \/ SetSeamlessXBounds
    \/ SetSeamlessYBounds
    \/ SetSize
    \/ Build
    \/ OuterLoop
    \/ InnerLoop
    \/ Progress

SpecSeamless == InitSeamless /\ [][NextSeamless]_vars

----------------------------------------------------------------------------
(* Properties *)

width == builder.size[1]
height == builder.size[2]

Building == run.pc # "idle"
IsPlane == builder.kind = "Plane"
HasCallback == IsPlane /\ builder.callback_config # None
StoredGranularity == builder.callback_config[1].granularity

EventsOf(ev) == SelectSeq(run.events, LAMBDA e : e.ev = ev)
IndexesOf(ev) == {i \in DOMAIN run.events : run.events[i].ev = ev}

\* C1: a build writes the cells of the grid in row-major order (y outer, x
\* inner), each at most once and no other cell, and when it has returned
\* every cell (x, y) with x < width and y < height has been written
C1_RowMajorCoverage ==
    Building =>
        LET ws == EventsOf("write")
        IN  /\ DOMAIN run.result_map = Cells(width, height)
            /\ Len(ws) <= width * height
            /\ \A i \in 1 .. Len(ws) :
                   /\ ws[i].x = (i - 1) % width
                   /\ ws[i].y = (i - 1) \div width
            /\ run.pc = "done" => Len(ws) = width * height

C1_Witness ==
    /\ run.pc = "done"
    /\ builder.kind = "Sphere"
    /\ builder.size = <<3, 2>>
    /\ Len(EventsOf("write")) = 6

\* C2: whenever a progress callback is configured, the stored granularity
\* lies in 1..10
C2_GranularityInRange == HasCallback => StoredGranularity \in 1 .. 10

\* the cells whose progress check has been passed
Checked ==
    {c \in {<<run.events[i].x, run.events[i].y>> : i \in IndexesOf("write")} :
        /\ run.pc # "panicked"
        /\ ~(run.pc = "progress" /\ c = <<run.x, run.y>>)}

CallsFor(c) == {i \in IndexesOf("call") : <<run.events[i].x, run.events[i].y>> = c}

C4_EntriesProcessed ==
    (Building /\ HasCallback) =>
        \A i \in IndexesOf("call") :
            LET e == run.events[i]
                done == Cardinality({j \in IndexesOf("write") : j < i})
            IN  /\ e.total = width * height
                /\ e.progress_pt \in {done - 1, done}

C4_Witness ==
    /\ run.pc = "callback"
    /\ run.x = 1
    /\ run.y = 0
    /\ run.events[Len(run.events)].progress_pt = 0

C6_SynchronousCallback ==
    (Building /\ IsPlane) =>
        LET ev == run.events
            n == Len(ev)
        IN  /\ \A i \in IndexesOf("call") :
                   /\ i > 1
                   /\ ev[i - 1].ev = "write"
                   /\ ev[i - 1].x = ev[i].x /\ ev[i - 1].y = ev[i].y
                   /\ run.result_map[<<ev[i].x, ev[i].y>>]
                          = CellValue(builder, ev[i].x, ev[i].y)
                   /\ IF i = n THEN run.pc = "callback"
                      ELSE /\ ev[i + 1].ev = "ret"
                           /\ ev[i + 1].x = ev[i].x /\ ev[i + 1].y = ev[i].y
            /\ \A i \in IndexesOf("ret") : i > 1 /\ ev[i - 1].ev = "call"
            /\ run.pc = "callback" => (n > 0 /\ ev[n].ev = "call")
            /\ \A i \in IndexesOf("return") : i = n /\ run.pc = "done"
            /\ run.pc = "done" => (n > 0 /\ ev[n].ev = "return" /\ ~ENABLED BuildSteps)

C6_Witness ==
    /\ run.pc = "done"
    /\ HasCallback
    /\ builder.size = <<3, 2>>
    /\ Len(EventsOf("call")) >= 4
    /\ Len(EventsOf("ret")) = Len(EventsOf("call"))

\* C7: a Plane build with a progress callback that returns has produced
\* the grid that the build of the same builder without the callback returns
C7_SameGridWithCallback ==
    (run.pc = "done" /\ HasCallback) =>
        LET plain == build([builder EXCEPT !.callback_config = None])
        IN  /\ plain.pc = "done"
            /\ run.result_map = plain.result_map

C7_Witness ==
    /\ run.pc = "done"
    /\ HasCallback
    /\ builder.is_seamless
    /\ builder.size = <<3, 2>>
    /\ \E c \in DOMAIN run.result_map : run.result_map[c] # Zero

IsCylinder == builder.kind = "Cylinder"

\* the pair `stored` holds exactly the two values of `args`, in some order
HoldsArgs(stored, args) ==
    \/ stored = args
    \/ stored = <<args[2], args[1]>>

Ordered(bounds) == FLe(bounds[1], bounds[2])

\* C8 as stated: the stored angle and height bounds of a Cylinder builder
\* always satisfy lower <= upper and hold the two values last passed
C8_AlwaysOrdered ==
    IsCylinder =>
        /\ Ordered(builder.angle_bounds)
        /\ Ordered(builder.height_bounds)
        /\ requested.angle_bounds # <<>>
               => HoldsArgs(builder.angle_bounds, requested.angle_bounds)
        /\ requested.height_bounds # <<>>
               => HoldsArgs(builder.height_bounds, requested.height_bounds)

NoNaN(args) == ~IsNaN(args[1]) /\ ~IsNaN(args[2])

\* C8, amended: the stored angle and height bounds hold exactly the two
\* values last passed to their setter (the defaults before any call), and
\* satisfy lower <= upper unless one of those two values is NaN;
\* set_angle_bounds(10, -10) stores (-10, 10)
C8_OrderedUnlessNaN ==
    IsCylinder =>
        /\ IF requested.angle_bounds = <<>>
           THEN builder.angle_bounds = <<F(-90), F(90)>>
           ELSE /\ HoldsArgs(builder.angle_bounds, requested.angle_bounds)
                /\ NoNaN(requested.angle_bounds) => Ordered(builder.angle_bounds)
        /\ IF requested.height_bounds = <<>>
           THEN builder.height_bounds = <<F(-1), F(1)>>
           ELSE /\ HoldsArgs(builder.height_bounds, requested.height_bounds)
                /\ NoNaN(requested.height_bounds) => Ordered(builder.height_bounds)
        /\ requested.angle_bounds = <<F(10), F(-10)>>
               => builder.angle_bounds = <<F(-10), F(10)>>

C8_Witness ==
    /\ IsCylinder
    /\ requested.angle_bounds = <<F(10), F(-10)>>
    /\ builder.angle_bounds = <<F(-10), F(10)>>
    /\ requested.height_bounds = <<F(1), F(-1)>>
    /\ builder.height_bounds = <<F(-1), F(1)>>
    /\ builder.size = <<3, 2>>

\* the point of cell (x, y) as C9 states it
C9_Point(x, y) ==
    LET px == FAdd(builder.x_bounds[1],
                   FDiv(FMul(F(x), FSub(builder.x_bounds[2], builder.x_bounds[1])),
                        F(width)))
        py == FAdd(builder.y_bounds[1],
                   FDiv(FMul(F(y), FSub(builder.y_bounds[2], builder.y_bounds[1])),
                        F(height)))
    IN  <<px, py>> \o (IF builder.DIM >= 3 THEN <<Zero>> ELSE <<>>)
                   \o (IF builder.DIM = 4 THEN <<Half>> ELSE <<>>)

C9_Sample(point) ==
    IF builder.source_module = "first" THEN point[1]
    ELSE IF Len(point) = 2 THEN FAdd(point[1], point[2])
    ELSE IF Len(point) = 3 THEN FAdd(point[1], FAdd(point[2], point[3]))
    ELSE FAdd(point[1], FAdd(point[2], FAdd(point[3], point[4])))

\* C9: a non-seamless Plane build with width > 0 and height > 0 that has
\* returned holds in every cell (x, y) the source sampled at
\* (x_lower + x * (x_upper - x_lower) / width,
\*  y_lower + y * (y_upper - y_lower) / height), the further coordinates
\* being 0.0 and 0.5; with bounds (-1, 1), size (4, 4) and the source that
\* returns its first coordinate, cell (x, y) is -1 + x / 2
C9_LinearMapping ==
    (run.pc = "done" /\ IsPlane /\ ~builder.is_seamless /\ width > 0 /\ height > 0) =>
        /\ \A c \in Cells(width, height) :
               run.result_map[c] = C9_Sample(C9_Point(c[1], c[2]))
        /\ ( /\ builder.x_bounds = <<F(-1), F(1)>>
             /\ builder.y_bounds = <<F(-1), F(1)>>
             /\ builder.size = <<4, 4>>
             /\ builder.source_module = "first" )
               => \A c \in Cells(4, 4) : run.result_map[c] = Q(c[1] - 2, 2)

C9_Witness ==
    /\ run.pc = "done"
    /\ IsPlane
    /\ ~builder.is_seamless
    /\ builder.x_bounds = <<F(-1), F(1)>>
    /\ builder.y_bounds = <<F(-1), F(1)>>
    /\ builder.size = <<4, 4>>
    /\ builder.source_module = "first"
    /\ run.result_map[<<3, 2>>] = Half

ZeroArea == width = 0 \/ height = 0

\* C10: a build with width = 0 or height = 0 never panics, never samples
\* the source, never writes and never enters the callback; its grid has no
\* cell; and until it has returned it always has a next step, its row
\* counter never passing height
C10_ZeroAreaBuild ==
    (Building /\ ZeroArea) =>
        /\ run.pc \in {"outer", "inner", "done"}
        /\ DOMAIN run.result_map = {}
        /\ IndexesOf("get") = {} /\ IndexesOf("write") = {} /\ IndexesOf("call") = {}
        /\ run.y <= height /\ run.x = 0
        /\ run.pc # "done" => ENABLED BuildSteps
        /\ run.pc = "inner" => width = 0

C10_Witness ==
    /\ run.pc = "done"
    /\ HasCallback
    /\ StoredGranularity = 0
    /\ builder.size = <<0, 2>>
    /\ run.y = 2

\* the source sampled at (px, py), the further coordinates being 0.0 and 0.5
C11_At(px, py) ==
    Get(builder.source_module,
        <<px, py>> \o (IF builder.DIM >= 3 THEN <<Zero>> ELSE <<>>)
                   \o (IF builder.DIM = 4 THEN <<Half>> ELSE <<>>))

\* a and b blended with weight t on b
C11_Lerp(a, b, t) == FAdd(FMul(a, FSub(One, t)), FMul(b, t))

C11_XExtent == FSub(builder.x_bounds[2], builder.x_bounds[1])
C11_YExtent == FSub(builder.y_bounds[2], builder.y_bounds[1])

\* the coordinates of cell index x, y
C11_X(x) == FAdd(builder.x_bounds[1], FDiv(FMul(F(x), C11_XExtent), F(width)))
C11_Y(y) == FAdd(builder.y_bounds[1], FDiv(FMul(F(y), C11_YExtent), F(height)))

C11_Case ==
    /\ run.pc = "done"
    /\ IsPlane
    /\ builder.is_seamless
    /\ width > 0 /\ height > 0
    /\ C11_XExtent # Zero /\ C11_YExtent # Zero

\* the source has, along both axes, a period equal to the extent
C11_PeriodIsExtent ==
    /\ builder.source_module = "sawtooth"
    /\ C11_XExtent \in {F(SawPeriod), F(-SawPeriod)}
    /\ C11_YExtent \in {F(SawPeriod), F(-SawPeriod)}

\* C11: in a seamless Plane build with non-zero extents and positive size
\* that has returned, the blend factors are 1 - x / width and
\* 1 - y / height; every cell is the blend by these factors of the four
\* samples; a cell of column 0 is the blend of the two samples taken at
\* x_lower + x_extent alone; cell (0, 0) is the source at
\* (x_upper, y_upper); and over a source whose period is the extent on both
\* axes the grid is the one the non-seamless build returns
C11_SeamlessBlend ==
    C11_Case =>
        /\ \A c \in Cells(width, height) :
               LET bx == Q(width - c[1], width)
                   by == Q(height - c[2], height)
                   px == C11_X(c[1])
                   py == C11_Y(c[2])
                   sw == C11_At(px, py)
                   se == C11_At(FAdd(px, C11_XExtent), py)
                   nw == C11_At(px, FAdd(py, C11_YExtent))
                   ne == C11_At(FAdd(px, C11_XExtent), FAdd(py, C11_YExtent))
               IN  /\ x_blend(builder, c[1]) = bx
                   /\ y_blend(builder, c[2]) = by
                   /\ run.result_map[c] =
                          C11_Lerp(C11_Lerp(sw, se, bx), C11_Lerp(nw, ne, bx), by)
                   /\ c[1] = 0 => run.result_map[c] = C11_Lerp(se, ne, by)
        /\ run.result_map[<<0, 0>>] = C11_At(builder.x_bounds[2], builder.y_bounds[2])
        /\ C11_PeriodIsExtent =>
               LET plain == build([builder EXCEPT !.is_seamless = FALSE])
               IN  /\ plain.pc = "done"
                   /\ run.result_map = plain.result_map

C11_Witness ==
    /\ C11_Case
    /\ C11_PeriodIsExtent
    /\ builder.x_bounds = <<F(1), F(-1)>>
    /\ builder.size = <<3, 2>>
    /\ run.result_map[<<0, 0>>] = C11_At(F(-1), F(1))
    /\ run.result_map[<<1, 1>>] # run.result_map[<<0, 0>>]

====
